---- MODULE Spec2Model ----
(***************************************************************************)
(* Model of the RenderDoc extension's queries:                             *)
(*   utils/serializers.py   Serializers.serialize_flags / serialize_actions *)
(*   utils/helpers.py       Helpers.flatten_actions / count_children        *)
(*   utils/parsers.py       Parsers.extract_numeric_id                      *)
(*   services/action_service.py    ActionService.get_draw_calls,            *)
(*                                 get_frame_summary, get_draw_call_details *)
(*   services/resource_service.py  ResourceService.get_texture_data         *)
(* The capture's action forest and textures are the input; each service    *)
(* call is one action of the state machine and stores what the call        *)
(* returns or raises, with the external calls it made.                     *)
(***************************************************************************)
EXTENDS Integers, Sequences, FiniteSets, TLC

VARIABLES
    root_actions,   \* controller.GetRootActions(): the capture's action forest
    request,        \* keyword arguments of the last get_draw_calls call
    result,         \* what the last service call returned
    mask_bits,      \* names of the ActionFlags members OR-ed into flags so far
    flags,          \* an ActionFlags bitmask under construction
    flag_names,     \* what serialize_flags returned for flags
    capture_loaded, \* ctx.IsCaptureLoaded()
    calls,          \* the calls the last service call made, in order
    capture_textures \* controller.GetTextures(): the texture descriptions

vars ==
    << root_actions, request, result, mask_bits, flags, flag_names,
       capture_loaded, calls, capture_textures >>

-----------------------------------------------------------------------------
(* Bounds of the model *)

MaxNodes == 3        \* nodes in the forest
MaxBits == 3         \* bits OR-ed into one bitmask by the flag-codec runs

-----------------------------------------------------------------------------
(* Python values *)

\* None, and a value that is not None (an optional argument)
None == <<>>
Some(v) == <<v>>
Val(o) == o[1]

\* str: a sequence of one-character strings; `sub in name`
Contains(name, sub) ==
    \E i \in 0..(Len(name) - Len(sub)) : SubSeq(name, i + 1, i + Len(sub)) = sub

\* a & b on non-negative integers
RECURSIVE BitAnd(_, _)
BitAnd(a, b) ==
    IF a = 0 \/ b = 0 THEN 0
    ELSE (a % 2) * (b % 2) + 2 * BitAnd(a \div 2, b \div 2)

\* truth of `flags & flag` for a flag of one bit (an ActionFlags member)
HasFlag(fl, flag) == (fl \div flag) % 2 = 1

\* a | b on non-negative integers
BitOr(a, b) == a + b - BitAnd(a, b)

\* the elements of a set of integers in increasing order
RECURSIVE SortedSeq(_)
SortedSeq(S) ==
    IF S = {} THEN <<>>
    ELSE LET m == CHOOSE x \in S : \A y \in S : x <= y
         IN <<m>> \o SortedSeq(S \ {m})

\* the concatenation of a sequence of sequences
RECURSIVE Concat(_)
Concat(ss) == IF ss = <<>> THEN <<>> ELSE Head(ss) \o Concat(Tail(ss))

-----------------------------------------------------------------------------
(* renderdoc.ActionFlags: one bit per member, in the enum's order *)

ActionFlagNames ==
    << "Clear", "Drawcall", "Dispatch", "MeshDispatch", "CmdList", "SetMarker",
       "PushMarker", "PopMarker", "Present", "MultiAction", "Copy", "Resolve",
       "GenMips", "PassBoundary", "DispatchRay", "BuildAccStruct", "Indexed",
       "Instanced", "Auto", "Indirect", "ClearColor", "ClearDepthStencil",
       "BeginPass", "EndPass", "CommandBufferBoundary" >>

ActionFlags ==
    [member \in {ActionFlagNames[k] : k \in 1..Len(ActionFlagNames)} |->
        LET i == CHOOSE k \in 1..Len(ActionFlagNames) : ActionFlagNames[k] = member
        IN 2 ^ (i - 1)]

-----------------------------------------------------------------------------
(* Serializers.serialize_flags *)

\* flag_map with PopMarker and SetMarker in the order of the enum
flag_map_enum_order ==
    << <<ActionFlags.Drawcall, "Drawcall">>,
       <<ActionFlags.Dispatch, "Dispatch">>,
       <<ActionFlags.Clear, "Clear">>,
       <<ActionFlags.PushMarker, "PushMarker">>,
       <<ActionFlags.SetMarker, "SetMarker">>,
       <<ActionFlags.PopMarker, "PopMarker">>,
       <<ActionFlags.Present, "Present">>,
       <<ActionFlags.Copy, "Copy">>,
       <<ActionFlags.Resolve, "Resolve">>,
       <<ActionFlags.GenMips, "GenMips">>,
       <<ActionFlags.PassBoundary, "PassBoundary">>,
       <<ActionFlags.Indexed, "Indexed">>,
       <<ActionFlags.Instanced, "Instanced">>,
       <<ActionFlags.Auto, "Auto">>,
       <<ActionFlags.Indirect, "Indirect">>,
       <<ActionFlags.ClearColor, "ClearColor">>,
       <<ActionFlags.ClearDepthStencil, "ClearDepthStencil">>,
       <<ActionFlags.BeginPass, "BeginPass">>,
       <<ActionFlags.EndPass, "EndPass">> >>

flag_map ==
    << <<ActionFlags.Drawcall, "Drawcall">>,
       <<ActionFlags.Dispatch, "Dispatch">>,
       <<ActionFlags.Clear, "Clear">>,
       <<ActionFlags.PushMarker, "PushMarker">>,
       <<ActionFlags.PopMarker, "PopMarker">>,
       <<ActionFlags.SetMarker, "SetMarker">>,
       <<ActionFlags.Present, "Present">>,
       <<ActionFlags.Copy, "Copy">>,
       <<ActionFlags.Resolve, "Resolve">>,
       <<ActionFlags.GenMips, "GenMips">>,
       <<ActionFlags.PassBoundary, "PassBoundary">>,
       <<ActionFlags.Indexed, "Indexed">>,
       <<ActionFlags.Instanced, "Instanced">>,
       <<ActionFlags.Auto, "Auto">>,
       <<ActionFlags.Indirect, "Indirect">>,
       <<ActionFlags.ClearColor, "ClearColor">>,
       <<ActionFlags.ClearDepthStencil, "ClearDepthStencil">>,
       <<ActionFlags.BeginPass, "BeginPass">>,
       <<ActionFlags.EndPass, "EndPass">> >>

\* for flag, name in flag_map: if flags & flag: flag_names.append(name)
serialize_flags(fl) ==
    LET hit == SelectSeq(flag_map, LAMBDA p : HasFlag(fl, p[1]))
    IN [i \in 1..Len(hit) |-> hit[i][2]]

-----------------------------------------------------------------------------
(* Serializers.serialize_actions, step by step *)

is_push_marker(fl) == HasFlag(fl, ActionFlags.PushMarker)
is_set_marker(fl) == HasFlag(fl, ActionFlags.SetMarker)
is_pop_marker(fl) == HasFlag(fl, ActionFlags.PopMarker)
is_marker(fl) == is_push_marker(fl) \/ is_set_marker(fl) \/ is_pop_marker(fl)

\* truth value of an optional str or list argument: None and empty are false
Truthy(o) == o # None /\ Len(Val(o)) > 0

\* excluded, testing Push markers only
excluded_push_only(name, fl, exclude_markers) ==
    /\ Truthy(exclude_markers)
    /\ is_push_marker(fl)
    /\ \E k \in 1..Len(Val(exclude_markers)) : Contains(name, Val(exclude_markers)[k])

\* 1. if exclude_markers and is_marker: if any(ex in name ...): continue
excluded(name, fl, exclude_markers) ==
    /\ Truthy(exclude_markers)
    /\ is_marker(fl)
    /\ \E k \in 1..Len(Val(exclude_markers)) : Contains(name, Val(exclude_markers)[k])

\* in_matching, set by a matching marker of any type
in_matching_any_marker(name, fl, marker_filter, _in_matching_marker) ==
    IF Truthy(marker_filter) /\ is_marker(fl) /\ Contains(name, Val(marker_filter))
    THEN TRUE
    ELSE _in_matching_marker

\* in_matching, reset by a marker that is not a matching Push marker
in_matching_until_marker(name, fl, marker_filter, _in_matching_marker) ==
    IF Truthy(marker_filter) /\ is_push_marker(fl) /\ Contains(name, Val(marker_filter))
    THEN TRUE
    ELSE IF is_marker(fl) THEN FALSE ELSE _in_matching_marker

\* 2. in_matching = _in_matching_marker, set by a matching Push marker
in_matching(name, fl, marker_filter, _in_matching_marker) ==
    IF Truthy(marker_filter) /\ is_push_marker(fl) /\ Contains(name, Val(marker_filter))
    THEN TRUE
    ELSE _in_matching_marker

\* in_range, a leaf passing when it is inside either bound
in_range_either_bound(eventId, fl, event_id_min, event_id_max) ==
    IF is_marker(fl) THEN TRUE
    ELSE \/ ~(event_id_min # None /\ eventId < Val(event_id_min))
         \/ ~(event_id_max # None /\ eventId > Val(event_id_max))

\* in_range with event_id_max tested like event_id_min (eventId < max fails)
in_range_max_as_min(eventId, fl, event_id_min, event_id_max) ==
    IF is_marker(fl) THEN TRUE
    ELSE /\ ~(event_id_min # None /\ eventId < Val(event_id_min))
         /\ ~(event_id_max # None /\ eventId < Val(event_id_max))

\* 3. the event-id range, tested on non-markers only
in_range(eventId, fl, event_id_min, event_id_max) ==
    IF is_marker(fl) THEN TRUE
    ELSE /\ ~(event_id_min # None /\ eventId < Val(event_id_min))
         /\ ~(event_id_max # None /\ eventId > Val(event_id_max))

\* the flags filter asking for all the listed names instead of any
fails_flags_filter_all_names(fl, flags_filter) ==
    LET flags_filter_set ==
            IF Truthy(flags_filter)
            THEN {Val(flags_filter)[k] : k \in 1..Len(Val(flags_filter))}
            ELSE {}
        names == serialize_flags(fl)
    IN /\ flags_filter_set # {}
       /\ ~is_marker(fl)
       /\ ~(flags_filter_set \subseteq {names[k] : k \in 1..Len(names)})

\* the flags filter rejecting nothing
fails_flags_filter_never(fl, flags_filter) == FALSE

\* 5. the flags filter rejects a non-marker none of whose flag names is listed
fails_flags_filter(fl, flags_filter) ==
    LET flags_filter_set ==
            IF Truthy(flags_filter)
            THEN {Val(flags_filter)[k] : k \in 1..Len(Val(flags_filter))}
            ELSE {}
        names == serialize_flags(fl)
    IN /\ flags_filter_set # {}
       /\ ~is_marker(fl)
       /\ ~(\E k \in 1..Len(names) : names[k] \in flags_filter_set)

\* 6. passes_marker_filter = not marker_filter or in_matching
passes_marker_filter(marker_filter, inm) == ~Truthy(marker_filter) \/ inm

\* should_include, a marker not needing passing children
should_include_any_marker(fl, has_passing_children, passes, inr) ==
    IF is_marker(fl) THEN passes
    ELSE inr /\ passes

\* should_include, for a marker and for a leaf action
should_include(fl, has_passing_children, passes, inr) ==
    IF is_marker(fl) THEN has_passing_children /\ passes
    ELSE inr /\ passes

\* item, with "children" present even when empty
item_children_always(action, children_result) ==
    [event_id |-> action.eventId,
     action_id |-> action.actionId,
     name |-> action.name,
     flags |-> serialize_flags(action.flags),
     num_indices |-> action.numIndices,
     num_instances |-> action.numInstances,
     children |-> children_result]

\* the projected item; "children" is present only when non-empty
item(action, children_result) ==
    LET base == [event_id |-> action.eventId,
                 action_id |-> action.actionId,
                 name |-> action.name,
                 flags |-> serialize_flags(action.flags),
                 num_indices |-> action.numIndices,
                 num_instances |-> action.numInstances]
    IN IF children_result # <<>>
       THEN base @@ [children |-> children_result]
       ELSE base

RECURSIVE serialize_actions(_, _, _)

\* the inclusion decision, the children of a dropped action moving up
include_action_children_move_up(action, children_result, kw, inm, inr) ==
    IF fails_flags_filter(action.flags, kw.flags_filter) THEN children_result
    ELSE IF should_include(action.flags, Len(children_result) > 0,
                           passes_marker_filter(kw.marker_filter, inm), inr)
    THEN <<item(action, children_result)>>
    ELSE children_result

\* steps 5-7 and the inclusion decision, given the serialized children
include_action(action, children_result, kw, inm, inr) ==
    IF fails_flags_filter(action.flags, kw.flags_filter) THEN <<>>
    ELSE IF should_include(action.flags, Len(children_result) > 0,
                           passes_marker_filter(kw.marker_filter, inm), inr)
    THEN <<item(action, children_result)>>
    ELSE <<>>

\* steps 3-7 recursing into the children whatever include_children is
visit_action_always_recurse(action, kw, inm) ==
    IF kw.only_actions /\ is_marker(action.flags)
    THEN IF action.children # <<>>
         THEN serialize_actions(action.children, kw, inm)
         ELSE <<>>
    ELSE include_action(action,
                        IF action.children # <<>>
                        THEN serialize_actions(action.children, kw, inm)
                        ELSE <<>>,
                        kw, inm,
                        in_range(action.eventId, action.flags,
                                 kw.event_id_min, kw.event_id_max))

\* steps 3-7 without step 4: a marker is emitted whatever only_actions is
visit_action_keep_marker(action, kw, inm) ==
    include_action(action,
                   IF kw.include_children /\ action.children # <<>>
                   THEN serialize_actions(action.children, kw, inm)
                   ELSE <<>>,
                   kw, inm,
                   in_range(action.eventId, action.flags,
                            kw.event_id_min, kw.event_id_max))

\* steps 3-7 for an action that exclude_markers did not skip; inm is in_matching
visit_action(action, kw, inm) ==
    IF kw.only_actions /\ is_marker(action.flags)
    THEN IF kw.include_children /\ action.children # <<>>
         THEN serialize_actions(action.children, kw, inm)
         ELSE <<>>
    ELSE include_action(action,
                        IF kw.include_children /\ action.children # <<>>
                        THEN serialize_actions(action.children, kw, inm)
                        ELSE <<>>,
                        kw, inm,
                        in_range(action.eventId, action.flags,
                                 kw.event_id_min, kw.event_id_max))

\* one iteration with step 4 (flattening) tried before step 1 (exclusion)
serialize_action_flatten_first(action, kw, _in_matching_marker) ==
    IF kw.only_actions /\ is_marker(action.flags)
    THEN visit_action(action, kw,
                      in_matching(action.name, action.flags, kw.marker_filter,
                                  _in_matching_marker))
    ELSE IF excluded(action.name, action.flags, kw.exclude_markers) THEN <<>>
    ELSE visit_action(action, kw,
                      in_matching(action.name, action.flags, kw.marker_filter,
                                  _in_matching_marker))

\* one iteration of `for action in actions`: what it adds to `serialized`
serialize_action(action, kw, _in_matching_marker) ==
    IF excluded(action.name, action.flags, kw.exclude_markers) THEN <<>>
    ELSE visit_action(action, kw,
                      in_matching(action.name, action.flags, kw.marker_filter,
                                  _in_matching_marker))

\* serialize_actions, iterating over the actions from the last to the first
serialize_actions_reversed(actions, kw, _in_matching_marker) ==
    Concat([i \in 1..Len(actions) |->
              serialize_action(actions[Len(actions) + 1 - i], kw,
                               _in_matching_marker)])

\* kw holds include_children and the keyword arguments of the call
serialize_actions(actions, kw, _in_matching_marker) ==
    Concat([i \in 1..Len(actions) |->
              serialize_action(actions[i], kw, _in_matching_marker)])

-----------------------------------------------------------------------------
(* The traversal serialize_actions makes: one record per iteration of        *)
(* `for action in actions`, with the depth of the call it runs in (1 for the *)
(* outermost call) and the value in_matching takes for the action, None when *)
(* step 1 skips the action before step 2 computes it                         *)

RECURSIVE visited(_, _, _, _)

\* the iterations of the recursive call on the children, if it is made
children_visits(action, kw, inm, depth) ==
    IF kw.include_children /\ action.children # <<>>
    THEN visited(action.children, kw, inm, depth + 1)
    ELSE <<>>

\* steps 5-7: no recursion for an action the flags filter rejects
inclusion_visits(action, kw, inm, depth) ==
    IF fails_flags_filter(action.flags, kw.flags_filter) THEN <<>>
    ELSE children_visits(action, kw, inm, depth)

\* step 4 without its `continue`: the inclusion branch runs as well
flattening_visits_no_continue(action, kw, inm, depth) ==
    children_visits(action, kw, inm, depth)
        \o inclusion_visits(action, kw, inm, depth)

\* step 4: the flattening branch recurses, then `continue`
flattening_visits(action, kw, inm, depth) ==
    children_visits(action, kw, inm, depth)

\* steps 2-7 for an action that exclude_markers did not skip
visited_from_step_2(action, kw, inm, depth) ==
    <<[eventId |-> action.eventId, depth |-> depth, in_matching |-> Some(inm)]>>
        \o (IF kw.only_actions /\ is_marker(action.flags)
            THEN flattening_visits(action, kw, inm, depth)
            ELSE inclusion_visits(action, kw, inm, depth))

visited_action(action, kw, _in_matching_marker, depth) ==
    IF excluded(action.name, action.flags, kw.exclude_markers)
    THEN <<[eventId |-> action.eventId, depth |-> depth, in_matching |-> None]>>
    ELSE visited_from_step_2(action, kw,
                             in_matching(action.name, action.flags,
                                         kw.marker_filter, _in_matching_marker),
                             depth)

visited(actions, kw, _in_matching_marker, depth) ==
    Concat([i \in 1..Len(actions) |->
              visited_action(actions[i], kw, _in_matching_marker, depth)])

-----------------------------------------------------------------------------
(* Helpers.flatten_actions, Helpers.count_children *)

RECURSIVE flatten_actions(_)
flatten_actions(actions) ==
    Concat([i \in 1..Len(actions) |->
              <<actions[i]>> \o
              (IF actions[i].children # <<>>
               THEN flatten_actions(actions[i].children) ELSE <<>>)])

\* the sum of a sequence of integers
RECURSIVE Sum(_)
Sum(ns) == IF ns = <<>> THEN 0 ELSE Head(ns) + Sum(Tail(ns))

\* count_children, counting the direct children only
count_children_direct(action) == Len(action.children)

RECURSIVE count_children(_)
count_children(action) ==
    IF action.children # <<>>
    THEN Sum([i \in 1..Len(action.children) |->
                1 + count_children(action.children[i])])
    ELSE 0

-----------------------------------------------------------------------------
(* The capture: a forest of actions, event ids increasing in pre-order *)

\* name, flags and draw parameters a node of the forest may carry
NodeKinds ==
    { [name |-> <<"A">>, flags |-> ActionFlags.PushMarker,
       numIndices |-> 0, numInstances |-> 0],
      [name |-> <<"B">>, flags |-> ActionFlags.PushMarker,
       numIndices |-> 0, numInstances |-> 0],
      [name |-> <<"A">>, flags |-> ActionFlags.SetMarker,
       numIndices |-> 0, numInstances |-> 0],
      [name |-> <<"A", "B">>, flags |-> ActionFlags.PopMarker,
       numIndices |-> 0, numInstances |-> 0],
      [name |-> <<"B">>,
       flags |-> BitOr(ActionFlags.Drawcall,
                       BitOr(ActionFlags.Indexed, ActionFlags.Instanced)),
       numIndices |-> 6, numInstances |-> 2],
      [name |-> <<"A">>, flags |-> ActionFlags.Dispatch,
       numIndices |-> 0, numInstances |-> 1] }

\* parent[i] = 0 for a root; nodes are numbered in pre-order
RECURSIVE IsAncestorOrSelf(_, _, _)
IsAncestorOrSelf(a, b, parent) ==
    \/ a = b
    \/ b # 0 /\ IsAncestorOrSelf(a, parent[b], parent)

PreOrder(n, parent) ==
    \A i \in 1..n :
        /\ parent[i] < i
        /\ i > 1 => IsAncestorOrSelf(parent[i], i - 1, parent)

RECURSIVE BuildAction(_, _, _, _)
BuildAction(i, n, parent, kind) ==
    LET kids == SortedSeq({j \in 1..n : parent[j] = i})
    IN [eventId |-> i,
        actionId |-> Cardinality({j \in 1..i : ~is_marker(kind[j].flags)}),
        name |-> kind[i].name,
        flags |-> kind[i].flags,
        numIndices |-> kind[i].numIndices,
        numInstances |-> kind[i].numInstances,
        children |-> [k \in 1..Len(kids) |-> BuildAction(kids[k], n, parent, kind)]]

BuildForest(n, parent, kind) ==
    LET roots == SortedSeq({j \in 1..n : parent[j] = 0})
    IN [k \in 1..Len(roots) |-> BuildAction(roots[k], n, parent, kind)]

\* the capture holds a forest of at most MaxNodes nodes of the given kinds
LoadCapture(kinds) ==
    \E n \in 0..MaxNodes :
        \E parent \in {p \in [1..n -> 0..(n - 1)] : PreOrder(n, p)} :
            \E kind \in [1..n -> kinds] :
                root_actions = BuildForest(n, parent, kind)

-----------------------------------------------------------------------------
(* The service layer: the precondition and the replay-thread callback *)

\* raise <type>(<message>)
Raise(type, message) == [op |-> "raise", type |-> type, message |-> message]

\* the calls of a service made with the callback handed to _invoke first
service_calls_invoke_first(loaded, callback_calls) ==
    IF loaded THEN <<"IsCaptureLoaded", "_invoke">> \o callback_calls
    ELSE <<"_invoke", "IsCaptureLoaded">>

\* if not self.ctx.IsCaptureLoaded(): raise ValueError("No capture loaded")
\* ... self._invoke(callback): the calls made, the callback's included
service_calls(loaded, callback_calls) ==
    IF loaded THEN <<"IsCaptureLoaded", "_invoke">> \o callback_calls
    ELSE <<"IsCaptureLoaded">>

\* what the service returns, or the error raised before the callback exists
service_result(loaded, returned) ==
    IF loaded THEN returned ELSE Raise("ValueError", <<"No capture loaded">>)

-----------------------------------------------------------------------------
(* ActionService.get_draw_calls *)

\* the arguments a caller sets or leaves at their defaults
FilterRequests ==
    [include_children : BOOLEAN,
     marker_filter : {None, Some(<<"A">>)},
     exclude_markers : {None, Some(<< <<"B">> >>)},
     event_id_min : {None, Some(2)},
     event_id_max : {None, Some(2)},
     only_actions : BOOLEAN,
     flags_filter : {None, Some(<<"Drawcall">>)}]

DefaultRequest ==
    [include_children |-> TRUE, marker_filter |-> None, exclude_markers |-> None,
     event_id_min |-> None, event_id_max |-> None, only_actions |-> FALSE,
     flags_filter |-> None]

\* an argument given as an empty string or an empty list
EmptyValueRequests ==
    { [DefaultRequest EXCEPT !.marker_filter = Some(<<>>)],
      [DefaultRequest EXCEPT !.marker_filter = Some(<<>>), !.only_actions = TRUE],
      [DefaultRequest EXCEPT !.exclude_markers = Some(<<>>)],
      [DefaultRequest EXCEPT !.flags_filter = Some(<<>>)] }

\* event_id_min greater than event_id_max
EmptyRangeRequests ==
    { [DefaultRequest EXCEPT !.event_id_min = Some(2), !.event_id_max = Some(1)],
      [DefaultRequest EXCEPT !.event_id_min = Some(2), !.event_id_max = Some(1),
                             !.only_actions = TRUE],
      [DefaultRequest EXCEPT !.event_id_min = Some(3), !.event_id_max = Some(2),
                             !.marker_filter = Some(<<"A">>)] }

\* marker_filter and exclude_markers naming the same substring
OverlapRequests ==
    { [DefaultRequest EXCEPT !.marker_filter = Some(<<"A">>),
                             !.exclude_markers = Some(<< <<"A">> >>)],
      [DefaultRequest EXCEPT !.marker_filter = Some(<<"A">>),
                             !.exclude_markers = Some(<< <<"A">> >>),
                             !.only_actions = TRUE],
      [DefaultRequest EXCEPT !.exclude_markers = Some(<< <<"A">>, <<"B">> >>)] }

Requests ==
    FilterRequests \cup EmptyValueRequests \cup EmptyRangeRequests
        \cup OverlapRequests

NoRequest == [op |-> "none"]
NoResult == [op |-> "none"]

get_draw_calls(forest, r) ==
    [op |-> "get_draw_calls",
     actions |-> serialize_actions(forest, r, FALSE)]

GetDrawCalls ==
    /\ result = NoResult
    /\ \E r \in Requests :
          /\ request' = r
          /\ result' = service_result(capture_loaded,
                                      get_draw_calls(root_actions, r))
    /\ calls' = service_calls(capture_loaded,
                              <<"GetRootActions", "GetStructuredFile",
                                "serialize_actions">>)
    /\ UNCHANGED <<root_actions, mask_bits, flags, flag_names,
                   capture_loaded, capture_textures>>

Init ==
    /\ LoadCapture(NodeKinds)
    /\ request = NoRequest
    /\ result = NoResult
    /\ mask_bits = {}
    /\ flags = 0
    /\ flag_names = None
    /\ capture_loaded = TRUE
    /\ calls = <<>>
    /\ capture_textures = <<>>

Next == GetDrawCalls

Spec == Init /\ [][Next]_vars

-----------------------------------------------------------------------------
(* Serializers.serialize_actions called directly, with a list or with None *)

\* `for action in actions` on None, taken as a loop over nothing
iterate_none_as_empty(kw) ==
    [op |-> "serialize_actions", returned |-> <<>>, visits |-> <<>>]

\* `for action in actions` on None: Python raises TypeError
iterate_none(kw) ==
    Raise("TypeError", <<"'NoneType' object is not iterable">>)

\* the call's outcome: the list returned, with the traversal made, or the
\* exception raised
serialize_actions_call(actions, kw) ==
    IF actions = None THEN iterate_none(kw)
    ELSE [op |-> "serialize_actions",
          returned |-> serialize_actions(Val(actions), kw, FALSE),
          visits |-> visited(Val(actions), kw, FALSE, 1)]

\* the configurations of the direct calls
CoreRequests == {r \in FilterRequests : r.event_id_max = None}

\* the `actions` argument is the capture's list of root actions, or None
SerializeActions ==
    /\ result = NoResult
    /\ \E r \in CoreRequests, given \in {"root_actions", "None"} :
          /\ request' = [actions |-> given] @@ r
          /\ result' = serialize_actions_call(
                           IF given = "None" THEN None ELSE Some(root_actions), r)
    /\ calls' = <<"serialize_actions">>
    /\ UNCHANGED <<root_actions, mask_bits, flags, flag_names,
                   capture_loaded, capture_textures>>

CoreKinds ==
    { [name |-> <<"A">>, flags |-> ActionFlags.PushMarker,
       numIndices |-> 0, numInstances |-> 0],
      [name |-> <<"B">>, flags |-> ActionFlags.PushMarker,
       numIndices |-> 0, numInstances |-> 0],
      [name |-> <<"A">>, flags |-> ActionFlags.SetMarker,
       numIndices |-> 0, numInstances |-> 0],
      [name |-> <<"A", "B">>, flags |-> ActionFlags.PopMarker,
       numIndices |-> 0, numInstances |-> 0],
      [name |-> <<"B">>,
       flags |-> BitOr(ActionFlags.Drawcall, ActionFlags.Indexed),
       numIndices |-> 6, numInstances |-> 1],
      [name |-> <<"A">>, flags |-> ActionFlags.Dispatch,
       numIndices |-> 0, numInstances |-> 1] }

InitCore ==
    /\ LoadCapture(CoreKinds)
    /\ request = NoRequest
    /\ result = NoResult
    /\ mask_bits = {}
    /\ flags = 0
    /\ flag_names = None
    /\ capture_loaded = TRUE
    /\ calls = <<>>
    /\ capture_textures = <<>>

NextCore == SerializeActions

SpecCore == InitCore /\ [][NextCore]_vars

-----------------------------------------------------------------------------
(* Serializers.serialize_actions called twice on one forest, the second     *)
(* call with one constraint set or tightened                                 *)

\* the values of each constraint, from unset to tightest: a name containing
\* "AB" contains "B", a longer exclude list excludes more, a shorter flags
\* list accepts less
ConstraintChains ==
    [marker_filter |-> <<None, Some(<<"B">>), Some(<<"A", "B">>)>>,
     exclude_markers |-> <<None, Some(<< <<"A">> >>), Some(<< <<"A">>, <<"B">> >>)>>,
     event_id_min |-> <<None, Some(2), Some(3)>>,
     event_id_max |-> <<None, Some(2), Some(1)>>,
     flags_filter |-> <<None, Some(<<"Drawcall", "Dispatch">>), Some(<<"Drawcall">>)>>]

\* a first call's arguments: every constraint unset or at its first value
LooseRequests ==
    [include_children : BOOLEAN,
     marker_filter : {ConstraintChains.marker_filter[k] : k \in 1..2},
     exclude_markers : {ConstraintChains.exclude_markers[k] : k \in 1..2},
     event_id_min : {ConstraintChains.event_id_min[k] : k \in 1..2},
     event_id_max : {ConstraintChains.event_id_max[k] : k \in 1..2},
     only_actions : BOOLEAN,
     flags_filter : {ConstraintChains.flags_filter[k] : k \in 1..2}]

\* the arguments with the named constraint one step further along its chain
Tightened(r, constraint) ==
    [r EXCEPT ![constraint] =
        IF r[constraint] = None THEN ConstraintChains[constraint][2]
        ELSE ConstraintChains[constraint][3]]

SerializeTwice ==
    /\ result = NoResult
    /\ \E r \in LooseRequests, constraint \in DOMAIN ConstraintChains :
          /\ request' = [first |-> r, second |-> Tightened(r, constraint),
                         tightened |-> constraint]
          /\ result' = [op |-> "serialize_actions_twice",
                        first |-> serialize_actions(root_actions, r, FALSE),
                        second |-> serialize_actions(root_actions,
                                                     Tightened(r, constraint),
                                                     FALSE)]
    /\ calls' = <<"serialize_actions", "serialize_actions">>
    /\ UNCHANGED <<root_actions, mask_bits, flags, flag_names,
                   capture_loaded, capture_textures>>

TightenKinds ==
    { [name |-> <<"A", "B">>, flags |-> ActionFlags.PushMarker,
       numIndices |-> 0, numInstances |-> 0],
      [name |-> <<"B">>, flags |-> ActionFlags.PushMarker,
       numIndices |-> 0, numInstances |-> 0],
      [name |-> <<"B">>,
       flags |-> BitOr(ActionFlags.Drawcall, ActionFlags.Indexed),
       numIndices |-> 6, numInstances |-> 1],
      [name |-> <<"A">>, flags |-> ActionFlags.Dispatch,
       numIndices |-> 0, numInstances |-> 1] }

InitTighten ==
    /\ LoadCapture(TightenKinds)
    /\ request = NoRequest
    /\ result = NoResult
    /\ mask_bits = {}
    /\ flags = 0
    /\ flag_names = None
    /\ capture_loaded = TRUE
    /\ calls = <<>>
    /\ capture_textures = <<>>

NextTighten == SerializeTwice

SpecTighten == InitTighten /\ [][NextTighten]_vars

-----------------------------------------------------------------------------
(* ActionService.get_frame_summary *)

ZeroStats ==
    [total_actions |-> 0, draw_calls |-> 0, dispatches |-> 0, clears |-> 0,
     copies |-> 0, presents |-> 0, markers |-> 0]

\* is_counted_marker, counting a Pop marker too
is_counted_marker_with_pop(fl) ==
    BitAnd(fl, BitOr(BitOr(ActionFlags.PushMarker, ActionFlags.SetMarker),
                     ActionFlags.PopMarker)) # 0

\* flags & (rd.ActionFlags.PushMarker | rd.ActionFlags.SetMarker)
is_counted_marker(fl) ==
    BitAnd(fl, BitOr(ActionFlags.PushMarker, ActionFlags.SetMarker)) # 0

\* the body of `for action in actions` before the recursion
count_action(stats, fl) ==
    [total_actions |-> stats.total_actions + 1,
     draw_calls |-> stats.draw_calls
                      + (IF BitAnd(fl, ActionFlags.Drawcall) # 0 THEN 1 ELSE 0),
     dispatches |-> stats.dispatches
                      + (IF BitAnd(fl, ActionFlags.Dispatch) # 0 THEN 1 ELSE 0),
     clears |-> stats.clears
                      + (IF BitAnd(fl, ActionFlags.Clear) # 0 THEN 1 ELSE 0),
     copies |-> stats.copies
                      + (IF BitAnd(fl, ActionFlags.Copy) # 0 THEN 1 ELSE 0),
     presents |-> stats.presents
                      + (IF BitAnd(fl, ActionFlags.Present) # 0 THEN 1 ELSE 0),
     markers |-> stats.markers + (IF is_counted_marker(fl) THEN 1 ELSE 0)]

\* count_actions, the counters threaded through the traversal
RECURSIVE count_actions(_, _)
count_actions(actions, stats) ==
    IF actions = <<>> THEN stats
    ELSE count_actions(
             Tail(actions),
             IF Head(actions).children # <<>>
             THEN count_actions(Head(actions).children,
                                count_action(stats, Head(actions).flags))
             ELSE count_action(stats, Head(actions).flags))

\* top_markers: the root actions with the PushMarker bit
top_level_markers(forest) ==
    LET tops == SelectSeq(forest,
                          LAMBDA a : BitAnd(a.flags, ActionFlags.PushMarker) # 0)
    IN [i \in 1..Len(tops) |->
          [name |-> tops[i].name,
           event_id |-> tops[i].eventId,
           child_count |-> count_children(tops[i])]]

get_frame_summary(forest, api, textures, buffers) ==
    LET counted == count_actions(forest, ZeroStats)
    IN [op |-> "get_frame_summary",
        summary |->
          [api |-> api,
           total_actions |-> counted.total_actions,
           statistics |-> [k \in DOMAIN ZeroStats \ {"total_actions"} |-> counted[k]],
           top_level_markers |-> top_level_markers(forest),
           resource_counts |-> [textures |-> Len(textures),
                                buffers |-> Len(buffers)]]]

\* what the replay controller reports besides the actions
PipelineTypes == {"GraphicsAPI.D3D12", "GraphicsAPI.Vulkan"}
TextureLists == {<<>>, <<"ResourceId::10", "ResourceId::11">>}
BufferLists == {<<"ResourceId::20">>}

GetFrameSummary ==
    /\ result = NoResult
    /\ \E api \in PipelineTypes, textures \in TextureLists, buffers \in BufferLists :
          result' = service_result(capture_loaded,
                                   get_frame_summary(root_actions, api,
                                                     textures, buffers))
    /\ calls' = service_calls(capture_loaded,
                              <<"GetRootActions", "GetStructuredFile",
                                "GetAPIProperties", "count_actions",
                                "GetTextures", "GetBuffers">>)
    /\ UNCHANGED <<root_actions, request, mask_bits, flags, flag_names,
                   capture_loaded, capture_textures>>

\* flags the nodes of a summarised capture may carry
SummaryKinds ==
    { [name |-> <<"P">>, flags |-> ActionFlags.PushMarker,
       numIndices |-> 0, numInstances |-> 0],
      [name |-> <<"S">>, flags |-> ActionFlags.SetMarker,
       numIndices |-> 0, numInstances |-> 0],
      [name |-> <<"O">>, flags |-> ActionFlags.PopMarker,
       numIndices |-> 0, numInstances |-> 0],
      [name |-> <<"D">>,
       flags |-> BitOr(ActionFlags.Drawcall, ActionFlags.Indexed),
       numIndices |-> 6, numInstances |-> 1],
      [name |-> <<"C">>, flags |-> ActionFlags.Dispatch,
       numIndices |-> 0, numInstances |-> 0],
      [name |-> <<"L">>,
       flags |-> BitOr(ActionFlags.Clear, ActionFlags.ClearColor),
       numIndices |-> 0, numInstances |-> 0],
      [name |-> <<"Y">>, flags |-> ActionFlags.Copy,
       numIndices |-> 0, numInstances |-> 0],
      [name |-> <<"R">>, flags |-> ActionFlags.Present,
       numIndices |-> 0, numInstances |-> 0],
      [name |-> <<"X">>,
       flags |-> BitOr(BitOr(ActionFlags.PushMarker, ActionFlags.SetMarker),
                       BitOr(ActionFlags.Drawcall, ActionFlags.Dispatch)),
       numIndices |-> 3, numInstances |-> 1] }

InitSummary ==
    /\ LoadCapture(SummaryKinds)
    /\ request = NoRequest
    /\ result = NoResult
    /\ mask_bits = {}
    /\ flags = 0
    /\ flag_names = None
    /\ capture_loaded = TRUE
    /\ calls = <<>>
    /\ capture_textures = <<>>

NextSummary == GetFrameSummary

SpecSummary == InitSummary /\ [][NextSummary]_vars

-----------------------------------------------------------------------------
(* ActionService.get_draw_call_details *)

\* rd.ResourceId.Null()
ResourceIdNull == 0

\* the decimal digits of a non-negative integer
DigitChars == <<"0", "1", "2", "3", "4", "5", "6", "7", "8", "9">>

RECURSIVE Decimal(_)
Decimal(n) ==
    IF n < 10 THEN <<DigitChars[n + 1]>>
    ELSE Decimal(n \div 10) \o <<DigitChars[(n % 10) + 1]>>

\* str(resource id): "ResourceId::<number>"
ResourceIdStr(rid) ==
    <<"R", "e", "s", "o", "u", "r", "c", "e", "I", "d", ":", ":">> \o Decimal(rid)

\* self.ctx.GetAction(event_id): the action with that event id, or None
GetAction(forest, event_id) ==
    LET hits == {a \in {flatten_actions(forest)[i] :
                          i \in 1..Len(flatten_actions(forest))} :
                   a.eventId = event_id}
    IN IF hits = {} THEN None ELSE Some(CHOOSE a \in hits : TRUE)

\* the draw parameters and bound outputs an action record reports
DrawStates ==
    [baseVertex : {0}, vertexOffset : {0}, instanceOffset : {4}, indexOffset : {0},
     outputs : {<<ResourceIdNull, ResourceIdNull>>, <<7, ResourceIdNull, 8>>},
     depthOut : {ResourceIdNull, 9}]

\* the details dict of an action that was found
draw_call_details(action, st) ==
    LET bound == SelectSeq([i \in 1..Len(st.outputs) |-> i],
                           LAMBDA i : st.outputs[i] # ResourceIdNull)
        details ==
            [event_id |-> action.eventId,
             action_id |-> action.actionId,
             name |-> action.name,
             flags |-> serialize_flags(action.flags),
             num_indices |-> action.numIndices,
             num_instances |-> action.numInstances,
             base_vertex |-> st.baseVertex,
             vertex_offset |-> st.vertexOffset,
             instance_offset |-> st.instanceOffset,
             index_offset |-> st.indexOffset,
             outputs |-> [k \in 1..Len(bound) |->
                            [index |-> bound[k] - 1,
                             resource_id |-> ResourceIdStr(st.outputs[bound[k]])]]]
    IN IF st.depthOut # ResourceIdNull
       THEN details @@ [depth_output |-> ResourceIdStr(st.depthOut)]
       ELSE details

\* what get_draw_call_details returns or raises once the callback has run
get_draw_call_details(forest, event_id, st) ==
    IF GetAction(forest, event_id) = None
    THEN Raise("ValueError", <<"No action at event", event_id>>)
    ELSE [op |-> "get_draw_call_details",
          details |-> draw_call_details(Val(GetAction(forest, event_id)), st)]

GetDrawCallDetails ==
    /\ result = NoResult
    /\ \E event_id \in 0..(MaxNodes + 1), st \in DrawStates :
          /\ request' = [event_id |-> event_id]
          /\ result' = service_result(capture_loaded,
                                      get_draw_call_details(root_actions,
                                                            event_id, st))
          /\ calls' = service_calls(capture_loaded,
                                    IF GetAction(root_actions, event_id) = None
                                    THEN <<"SetFrameEvent", "GetAction">>
                                    ELSE <<"SetFrameEvent", "GetAction",
                                           "GetStructuredFile", "serialize_flags">>)
    /\ UNCHANGED <<root_actions, mask_bits, flags, flag_names,
                   capture_loaded, capture_textures>>

-----------------------------------------------------------------------------
(* Parsers.extract_numeric_id *)

\* resource_id_str.split("::")[-1]: what follows the last separator, the
\* separators being found from the left
RECURSIVE LastPart(_)
LastPart(str) ==
    LET at == {i \in 1..(Len(str) - 1) : str[i] = ":" /\ str[i + 1] = ":"}
    IN IF at = {} THEN str
       ELSE LastPart(SubSeq(str, (CHOOSE i \in at : \A j \in at : i <= j) + 2,
                            Len(str)))

IsDigit(c) == \E d \in 1..Len(DigitChars) : DigitChars[d] = c

\* the value of a string of decimal digits
RECURSIVE DigitsValue(_)
DigitsValue(str) ==
    IF str = <<>> THEN 0
    ELSE 10 * DigitsValue(SubSeq(str, 1, Len(str) - 1))
         + (CHOOSE d \in 0..9 : DigitChars[d + 1] = str[Len(str)])

\* int(s) for a string of digits; None stands for the ValueError it raises
\* on the empty string and on a string with another character
PyInt(str) ==
    IF str # <<>> /\ \A i \in 1..Len(str) : IsDigit(str[i])
    THEN Some(DigitsValue(str))
    ELSE None

extract_numeric_id(resource_id_str) == PyInt(LastPart(resource_id_str))

-----------------------------------------------------------------------------
(* base64.b64encode(data).decode("ascii") *)

Base64Alphabet ==
    << "A", "B", "C", "D", "E", "F", "G", "H", "I", "J", "K", "L", "M",
       "N", "O", "P", "Q", "R", "S", "T", "U", "V", "W", "X", "Y", "Z",
       "a", "b", "c", "d", "e", "f", "g", "h", "i", "j", "k", "l", "m",
       "n", "o", "p", "q", "r", "s", "t", "u", "v", "w", "x", "y", "z",
       "0", "1", "2", "3", "4", "5", "6", "7", "8", "9", "+", "/" >>

\* the k-th of the four characters encoding the 24 bits of v
Base64Char(v, k) == Base64Alphabet[((v \div (64 ^ (4 - k))) % 64) + 1]

\* three bytes at a time give four characters; "=" pads the last group
RECURSIVE b64encode(_)
b64encode(data) ==
    IF data = <<>> THEN <<>>
    ELSE LET n == Len(data)
             v == data[1] * 65536
                  + (IF n >= 2 THEN data[2] ELSE 0) * 256
                  + (IF n >= 3 THEN data[3] ELSE 0)
         IN << Base64Char(v, 1), Base64Char(v, 2),
               IF n >= 2 THEN Base64Char(v, 3) ELSE "=",
               IF n >= 3 THEN Base64Char(v, 4) ELSE "=" >>
            \o b64encode(SubSeq(data, 4, n))

-----------------------------------------------------------------------------
(* The three ActionService queries, with and without a loaded capture *)

ServiceKinds ==
    { [name |-> <<"A">>, flags |-> ActionFlags.PushMarker,
       numIndices |-> 0, numInstances |-> 0],
      [name |-> <<"B">>,
       flags |-> BitOr(ActionFlags.Drawcall, ActionFlags.Indexed),
       numIndices |-> 6, numInstances |-> 1],
      [name |-> <<"A">>, flags |-> ActionFlags.Dispatch,
       numIndices |-> 0, numInstances |-> 1] }

InitService ==
    /\ \/ capture_loaded = TRUE /\ LoadCapture(ServiceKinds)
       \/ capture_loaded = FALSE /\ root_actions = <<>>
    /\ request = NoRequest
    /\ result = NoResult
    /\ mask_bits = {}
    /\ flags = 0
    /\ flag_names = None
    /\ calls = <<>>
    /\ capture_textures = <<>>

NextService == GetDrawCalls \/ GetFrameSummary \/ GetDrawCallDetails

SpecService == InitService /\ [][NextService]_vars

-----------------------------------------------------------------------------
(* ResourceService.get_texture_data *)

MaxIndex == 2        \* largest mip, slice, sample and depth_slice index asked for

\* max(1, value >> mip), for mip >= 0
MipSize(value, mip) ==
    IF value \div (2 ^ mip) >= 1 THEN value \div (2 ^ mip) ELSE 1

\* _find_texture_by_id: the first texture whose id has the number asked for,
\* or None; the request's id is a string of digits here
find_texture_by_id(texture_list, resource_id) ==
    LET same == SelectSeq(texture_list,
                          LAMBDA tex : extract_numeric_id(ResourceIdStr(tex.resourceId))
                                          = extract_numeric_id(resource_id))
    IN IF same = <<>> THEN None ELSE Some(Head(same))

max_slices(tex) == IF tex.cubemap THEN tex.arraysize * 6 ELSE tex.arraysize

\* if slice < 0 or (max_slices > 1 and slice >= max_slices)
slice_error(tex, slice) ==
    slice < 0 \/ (max_slices(tex) > 1 /\ slice >= max_slices(tex))

\* if sample < 0 or (tex_desc.msSamp > 1 and sample >= tex_desc.msSamp)
sample_error(tex, sample) ==
    sample < 0 \/ (tex.msSamp > 1 /\ sample >= tex.msSamp)

\* the error the validation sets, None when every index is accepted
validation_error(tex, mip, slice, sample, depth_slice) ==
    IF mip < 0 \/ mip >= tex.mips
    THEN Some(<<"Invalid mip level", mip, tex.mips>>)
    ELSE IF slice_error(tex, slice)
    THEN Some(<<"Invalid slice", slice, max_slices(tex)>>)
    ELSE IF sample_error(tex, sample)
    THEN Some(<<"Invalid sample", sample, tex.msSamp>>)
    ELSE IF depth_slice # None /\ ~(tex.depth > 1)
    THEN Some(<<"depth_slice can only be used with 3D textures">>)
    ELSE IF /\ depth_slice # None
            /\ \/ Val(depth_slice) < 0
               \/ Val(depth_slice) >= MipSize(tex.depth, mip)
    THEN Some(<<"Invalid depth_slice", Val(depth_slice),
                MipSize(tex.depth, mip), mip>>)
    ELSE None

\* controller.GetTextureData: the bytes of the subresource, two for each
\* depth slice of the mip
TextureBytes(tex, mip) ==
    [k \in 1..(2 * MipSize(tex.depth, mip)) |-> (k * 37 + tex.resourceId) % 256]

\* data[slice_start:slice_end] for a 3D texture and a depth_slice, else data
extracted_data(tex, mip, depth_slice, data) ==
    IF tex.depth > 1 /\ depth_slice # None
    THEN SubSeq(data,
                Val(depth_slice) * (Len(data) \div MipSize(tex.depth, mip)) + 1,
                (Val(depth_slice) + 1) * (Len(data) \div MipSize(tex.depth, mip)))
    ELSE data

\* result["data"] after a successful GetTextureData
texture_data(tex, r, data) ==
    [resource_id |-> r.resource_id,
     width |-> MipSize(tex.width, r.mip),
     height |-> MipSize(tex.height, r.mip),
     depth |-> IF tex.depth > 1 /\ r.depth_slice # None
               THEN 1 ELSE MipSize(tex.depth, r.mip),
     mip |-> r.mip,
     slice |-> r.slice,
     sample |-> r.sample,
     depth_slice |-> r.depth_slice,
     format |-> tex.format,
     dimension |-> tex.type,
     is_3d |-> tex.depth > 1,
     total_depth |-> IF tex.depth > 1 THEN MipSize(tex.depth, r.mip) ELSE 1,
     data_length |-> Len(data),
     content_base64 |-> b64encode(data)]

\* what get_texture_data returns or raises once the callback has run, for a
\* texture that was found; upstream_ok is false when GetTextureData raises
found_texture_data(tex, r, upstream_ok) ==
    IF validation_error(tex, r.mip, r.slice, r.sample, r.depth_slice) # None
    THEN Raise("ValueError",
               Val(validation_error(tex, r.mip, r.slice, r.sample, r.depth_slice)))
    ELSE IF ~upstream_ok
    THEN Raise("ValueError", <<"Failed to get texture data">>)
    ELSE [op |-> "get_texture_data",
          data |-> texture_data(tex, r,
                                extracted_data(tex, r.mip, r.depth_slice,
                                               TextureBytes(tex, r.mip)))]

get_texture_data(texture_list, r, upstream_ok) ==
    IF extract_numeric_id(r.resource_id) = None
    THEN Raise("ValueError", <<"invalid literal for int()">>)
    ELSE IF find_texture_by_id(texture_list, r.resource_id) = None
    THEN Raise("ValueError", <<"Texture not found">> \o r.resource_id)
    ELSE found_texture_data(Val(find_texture_by_id(texture_list, r.resource_id)),
                            r, upstream_ok)

\* the controller calls the callback makes
texture_callback_calls(texture_list, r) ==
    IF extract_numeric_id(r.resource_id) = None THEN <<>>
    ELSE IF find_texture_by_id(texture_list, r.resource_id) = None
    THEN <<"GetTextures">>
    ELSE IF validation_error(Val(find_texture_by_id(texture_list, r.resource_id)),
                             r.mip, r.slice, r.sample, r.depth_slice) # None
    THEN <<"GetTextures">>
    ELSE <<"GetTextures", "GetTextureData">>

\* the arguments of a call
TextureRequests ==
    [resource_id : {ResourceIdStr(11), Decimal(11), ResourceIdStr(12),
                    <<"t", "e", "x">>},
     mip : -1..MaxIndex,
     slice : (-1..MaxIndex) \cup {5, 6, 11, 12},
     sample : -1..MaxIndex,
     depth_slice : {None} \cup {Some(i) : i \in -1..MaxIndex}]

GetTextureData ==
    /\ result = NoResult
    /\ \E r \in TextureRequests, upstream_ok \in BOOLEAN :
          /\ request' = r
          /\ result' = service_result(capture_loaded,
                                      get_texture_data(capture_textures, r,
                                                       upstream_ok))
          /\ calls' = service_calls(capture_loaded,
                                    texture_callback_calls(capture_textures, r))
    /\ UNCHANGED <<root_actions, mask_bits, flags, flag_names,
                   capture_loaded, capture_textures>>

\* the descriptions of the textures of a capture
TextureDescs ==
    [resourceId : {11}, width : {8}, height : {4},
     depth : {1, 4}, mips : {1, 2}, arraysize : {1, 2}, cubemap : BOOLEAN,
     msSamp : {1, 2},
     format : {"R8G8B8A8_UNORM"}, type : {"TextureType.Texture"}]

PlainTexture ==
    [resourceId |-> 10, width |-> 8, height |-> 4, depth |-> 1, mips |-> 1,
     arraysize |-> 1, cubemap |-> FALSE, msSamp |-> 1,
     format |-> "R8G8B8A8_UNORM", type |-> "TextureType.Texture"]

InitTexture ==
    /\ root_actions = <<>>
    /\ request = NoRequest
    /\ result = NoResult
    /\ mask_bits = {}
    /\ flags = 0
    /\ flag_names = None
    /\ calls = <<>>
    /\ \/ capture_loaded = FALSE /\ capture_textures = <<>>
       \/ capture_loaded = TRUE /\ capture_textures = <<>>
       \/ /\ capture_loaded = TRUE
          /\ \E tex \in TextureDescs : capture_textures = <<PlainTexture, tex>>

NextTexture == GetTextureData

SpecTexture == InitTexture /\ [][NextTexture]_vars

-----------------------------------------------------------------------------
(* Serializers.serialize_flags on bitmasks built bit by bit, in any order *)

\* flags |= rd.ActionFlags.<member>
OrFlag ==
    /\ \E member \in DOMAIN ActionFlags :
          /\ Cardinality(mask_bits \cup {member}) <= MaxBits
          /\ mask_bits' = mask_bits \cup {member}
          /\ flags' = BitOr(flags, ActionFlags[member])
    /\ flag_names' = None
    /\ UNCHANGED <<root_actions, request, result,
                   capture_loaded, calls, capture_textures>>

SerializeFlags ==
    /\ flag_names = None
    /\ flag_names' = Some(serialize_flags(flags))
    /\ UNCHANGED <<root_actions, request, result, mask_bits, flags,
                   capture_loaded, calls, capture_textures>>

InitFlags ==
    /\ root_actions = <<>>
    /\ request = NoRequest
    /\ result = NoResult
    /\ mask_bits = {}
    /\ flags = 0
    /\ flag_names = None
    /\ capture_loaded = TRUE
    /\ calls = <<>>
    /\ capture_textures = <<>>

NextFlags == OrFlag \/ SerializeFlags

SpecFlags == InitFlags /\ [][NextFlags]_vars

-----------------------------------------------------------------------------
(* Vocabulary of the properties of get_draw_calls *)

Called == result.op = "get_draw_calls"

Range(seq) == {seq[i] : i \in 1..Len(seq)}

\* every action of the capture, at any depth
InputNodes == Range(flatten_actions(root_actions))

\* the items of an output, at any depth, in pre-order
RECURSIVE OutputItems(_)
OutputItems(out) ==
    Concat([i \in 1..Len(out) |->
              <<out[i]>> \o
              (IF "children" \in DOMAIN out[i]
               THEN OutputItems(out[i].children) ELSE <<>>)])

EventIds(items) == [i \in 1..Len(items) |-> items[i].event_id]
InputEventIds(actions) == [i \in 1..Len(actions) |-> actions[i].eventId]

\* the event ids present anywhere in an output
OutputIds(out) == Range(EventIds(OutputItems(out)))

\* the action of the capture with a given event id (ids are unique)
NodeOf(eid) == CHOOSE a \in InputNodes : a.eventId = eid

Descendants(a) == Range(flatten_actions(a.children))
Ancestors(a) == {b \in InputNodes : a \in Descendants(b)}

IsMarker(a) == is_marker(a.flags)
IsLeafAction(a) == ~is_marker(a.flags)

\* the leaf actions (non-markers) present anywhere in an output
LeafIds(out) == {e \in OutputIds(out) : IsLeafAction(NodeOf(e))}
MarkerIds(out) == {e \in OutputIds(out) : IsMarker(NodeOf(e))}

\* s is a subsequence of t
RECURSIVE IsSubsequence(_, _)
IsSubsequence(s, t) ==
    IF s = <<>> THEN TRUE
    ELSE IF t = <<>> THEN FALSE
    ELSE IF Head(s) = Head(t) THEN IsSubsequence(Tail(s), Tail(t))
    ELSE IsSubsequence(s, Tail(t))

\* the projection of one action with already projected children
ProjectedNode(a, kids) ==
    LET base == [event_id |-> a.eventId, action_id |-> a.actionId,
                 name |-> a.name, flags |-> serialize_flags(a.flags),
                 num_indices |-> a.numIndices, num_instances |-> a.numInstances]
    IN IF kids = <<>> THEN base ELSE [children |-> kids] @@ base

\* the forest projected node by node, nothing dropped
RECURSIVE FullProjection(_)
FullProjection(actions) ==
    [i \in 1..Len(actions) |->
        ProjectedNode(actions[i], FullProjection(actions[i].children))]

HasLeafDescendant(a) == \E d \in Descendants(a) : IsLeafAction(d)

\* the forest projected node by node, without the markers that have no
\* non-marker descendant
RECURSIVE PrunedProjection(_)
PrunedProjection(actions) ==
    Concat([i \in 1..Len(actions) |->
              IF IsMarker(actions[i]) /\ ~HasLeafDescendant(actions[i])
              THEN <<>>
              ELSE <<ProjectedNode(actions[i],
                                   PrunedProjection(actions[i].children))>>])

-----------------------------------------------------------------------------
(* C1 *)

\* C1 as stated: with children included and every filter unset the output is
\* the projection of the whole forest, same shape, no node dropped.
C1_IsomorphicProjection ==
    (Called /\ request = DefaultRequest) =>
        result.actions = FullProjection(root_actions)

\* C1 (amended): with children included and every filter unset the output is
\* the projection of the forest without the markers that have no non-marker
\* descendant; every other node is kept, with the same shape and field values.
C1_IsomorphicButEmptyMarkers ==
    (Called /\ request = DefaultRequest) =>
        result.actions = PrunedProjection(root_actions)

C1_Witness ==
    /\ Called /\ request = DefaultRequest
    /\ \E m \in InputNodes : IsMarker(m) /\ m.eventId \notin OutputIds(result.actions)
    /\ \E m \in InputNodes : IsMarker(m) /\ m.eventId \in OutputIds(result.actions)
    /\ \E i \in 1..Len(result.actions) : "children" \in DOMAIN result.actions[i]

-----------------------------------------------------------------------------
(* C2 *)

\* the same call with only_actions flipped
FlippedOnlyActions ==
    get_draw_calls(root_actions, [request EXCEPT !.only_actions = ~@])

\* C2: the leaf actions (non-markers, by event id) present anywhere in the
\* output are the same with only_actions true and with only_actions false,
\* the other arguments being equal.
C2_SameLeafActions ==
    Called => LeafIds(result.actions) = LeafIds(FlippedOnlyActions.actions)

-----------------------------------------------------------------------------
(* C3 *)

\* the name contains one of the exclude_markers substrings
NameExcluded(a) ==
    \E k \in 1..Len(Val(request.exclude_markers)) :
        Contains(a.name, Val(request.exclude_markers)[k])

\* C3 as stated: with exclude_markers set, no node of any kind whose name
\* contains a listed substring is in the output, nor any descendant of one.
C3_NoNodeWithExcludedName ==
    (Called /\ Truthy(request.exclude_markers)) =>
        \A e \in OutputIds(result.actions) :
            /\ ~NameExcluded(NodeOf(e))
            /\ \A b \in Ancestors(NodeOf(e)) : ~NameExcluded(b)

\* C3 (amended): with exclude_markers set, no marker whose name contains a
\* listed substring is in the output, nor any descendant of such a marker,
\* whatever the other arguments are.
C3_NoExcludedMarkerSubtree ==
    (Called /\ Truthy(request.exclude_markers)) =>
        \A e \in OutputIds(result.actions) :
            /\ ~(IsMarker(NodeOf(e)) /\ NameExcluded(NodeOf(e)))
            /\ \A b \in Ancestors(NodeOf(e)) : ~(IsMarker(b) /\ NameExcluded(b))

\* an excluded marker has a leaf descendant, and the output is not empty
C3_Witness ==
    /\ Called /\ Truthy(request.exclude_markers)
    /\ \E m \in InputNodes :
          IsMarker(m) /\ NameExcluded(m) /\ HasLeafDescendant(m)
    /\ result.actions # <<>>

-----------------------------------------------------------------------------
(* C4 *)

\* C4: a marker without children in the capture is never in the output.
C4_NoChildlessMarker ==
    Called =>
        \A e \in MarkerIds(result.actions) : NodeOf(e).children # <<>>

\* a childless marker next to a marker that is in the output
C4_Witness ==
    /\ Called
    /\ \E m \in InputNodes : IsMarker(m) /\ m.children = <<>>
    /\ MarkerIds(result.actions) # {}

-----------------------------------------------------------------------------
(* C5 *)

\* a Push marker whose name contains marker_filter
MatchingPush(a) ==
    is_push_marker(a.flags) /\ Contains(a.name, Val(request.marker_filter))

\* C5: with marker_filter configured (a non-empty string), every non-marker
\* in the output has an ancestor that is a Push marker whose name contains
\* marker_filter.
C5_LeafInsideMatchingScope ==
    (Called /\ Truthy(request.marker_filter)) =>
        \A e \in LeafIds(result.actions) :
            \E b \in Ancestors(NodeOf(e)) : MatchingPush(b)

\* a leaf inside a matching Push marker is in the output and a leaf that
\* follows that marker as its sibling is not
C5_Witness ==
    /\ Called /\ Truthy(request.marker_filter)
    /\ Len(root_actions) >= 2
    /\ MatchingPush(root_actions[1])
    /\ IsLeafAction(root_actions[2])
    /\ root_actions[2].eventId \notin OutputIds(result.actions)
    /\ LeafIds(result.actions) # {}

-----------------------------------------------------------------------------
(* C6 *)

InEventRange(eid) ==
    /\ request.event_id_min # None => eid >= Val(request.event_id_min)
    /\ request.event_id_max # None => eid <= Val(request.event_id_max)

\* a marker is in the output exactly when one of its descendants is
MarkersKeptWithDescendants ==
    \A m \in InputNodes :
        IsMarker(m) =>
            (m.eventId \in OutputIds(result.actions)
               <=> \E d \in Descendants(m) : d.eventId \in OutputIds(result.actions))

\* C6 as stated: every leaf action of the output is inside the range, and a
\* marker is kept whenever one of its descendants survives, dropped when none
\* does, whatever its own event id.
C6_RangeOnLeavesOnly ==
    Called =>
        /\ \A e \in LeafIds(result.actions) : InEventRange(e)
        /\ MarkersKeptWithDescendants

\* C6 (amended): every leaf action of the output is inside the range; with
\* only_actions false a marker is kept exactly when one of its descendants
\* survives, whatever its own event id; with only_actions true no marker is
\* kept.
C6_RangeOnLeavesMarkersByDescendants ==
    Called =>
        /\ \A e \in LeafIds(result.actions) : InEventRange(e)
        /\ ~request.only_actions => MarkersKeptWithDescendants
        /\ request.only_actions => MarkerIds(result.actions) = {}

\* a marker whose own event id is below event_id_min is in the output
C6_Witness ==
    /\ Called /\ request.event_id_min # None
    /\ \E e \in MarkerIds(result.actions) : e < Val(request.event_id_min)
    /\ \E a \in InputNodes : IsLeafAction(a) /\ ~InEventRange(a.eventId)

-----------------------------------------------------------------------------
(* C7 *)

\* the table order of the flag names
FlagTableOrder ==
    << "Drawcall", "Dispatch", "Clear", "PushMarker", "PopMarker", "SetMarker",
       "Present", "Copy", "Resolve", "GenMips", "PassBoundary", "Indexed",
       "Instanced", "Auto", "Indirect", "ClearColor", "ClearDepthStencil",
       "BeginPass", "EndPass" >>

\* C7: serialize_flags returns the names of the known bits set in the mask,
\* each once, in the table order, and ignores the bits outside the table;
\* Drawcall+Indexed+Instanced gives <<Drawcall, Indexed, Instanced>> however
\* the mask was built.
C7_FlagNamesInTableOrder ==
    flag_names # None =>
        /\ IsSubsequence(Val(flag_names), FlagTableOrder)
        /\ Range(Val(flag_names)) = mask_bits \cap Range(FlagTableOrder)
        /\ mask_bits = {"Drawcall", "Indexed", "Instanced"} =>
              Val(flag_names) = <<"Drawcall", "Indexed", "Instanced">>

\* a mask with known bits out of enum order and a bit outside the table
C7_Witness ==
    /\ flag_names # None
    /\ {"SetMarker", "PopMarker", "MeshDispatch"} \subseteq mask_bits
    /\ Len(Val(flag_names)) = 2

-----------------------------------------------------------------------------
(* C8 *)

\* C8: the event ids of the output, in pre-order, are a subsequence of the
\* event ids of the capture in pre-order.
C8_OrderPreserved ==
    Called =>
        IsSubsequence(EventIds(OutputItems(result.actions)),
                      InputEventIds(flatten_actions(root_actions)))

\* children spliced in place of their marker, between its siblings
C8_Witness ==
    /\ Called /\ request.only_actions
    /\ Len(root_actions) >= 2
    /\ IsMarker(root_actions[1])
    /\ Len(result.actions) >= 2
    /\ result.actions[1].event_id \in
          {d.eventId : d \in Descendants(root_actions[1])}
    /\ result.actions[2].event_id = root_actions[2].eventId

-----------------------------------------------------------------------------
(* C9 *)

Summarised == result.op = "get_frame_summary"

CountWith(member) ==
    Cardinality({a \in InputNodes : HasFlag(a.flags, ActionFlags[member])})

\* C9: total_actions counts every node once; each of draw_calls, dispatches,
\* clears, copies and presents counts the nodes carrying that bit; markers
\* counts the nodes carrying PushMarker or SetMarker, once each; an empty
\* forest gives zeros and no top-level marker.
C9_SummaryCounts ==
    Summarised =>
        /\ result.summary.total_actions = Cardinality(InputNodes)
        /\ result.summary.statistics =
              [draw_calls |-> CountWith("Drawcall"),
               dispatches |-> CountWith("Dispatch"),
               clears |-> CountWith("Clear"),
               copies |-> CountWith("Copy"),
               presents |-> CountWith("Present"),
               markers |-> Cardinality({a \in InputNodes :
                                          \/ HasFlag(a.flags, ActionFlags.PushMarker)
                                          \/ HasFlag(a.flags, ActionFlags.SetMarker)})]
        /\ root_actions = <<>> =>
              /\ result.summary.total_actions = 0
              /\ \A k \in DOMAIN result.summary.statistics :
                    result.summary.statistics[k] = 0
              /\ result.summary.top_level_markers = <<>>

\* a node with several counted bits, a Pop-only marker and a nested node
C9_Witness ==
    /\ Summarised
    /\ \E a \in InputNodes :
          /\ HasFlag(a.flags, ActionFlags.PushMarker)
          /\ HasFlag(a.flags, ActionFlags.SetMarker)
          /\ HasFlag(a.flags, ActionFlags.Drawcall)
    /\ \E a \in InputNodes : HasFlag(a.flags, ActionFlags.PopMarker)
    /\ \E a \in InputNodes : a.children # <<>>
    /\ result.summary.statistics.markers = 1

-----------------------------------------------------------------------------
(* C10 *)

RootPushMarkers ==
    SelectSeq(root_actions, LAMBDA a : HasFlag(a.flags, ActionFlags.PushMarker))

\* C10: top_level_markers has one entry, in root order, for exactly the root
\* nodes carrying PushMarker, and child_count is the number of descendants
\* of that root at every depth.
C10_TopLevelMarkers ==
    Summarised =>
        result.summary.top_level_markers =
            [i \in 1..Len(RootPushMarkers) |->
                [name |-> RootPushMarkers[i].name,
                 event_id |-> RootPushMarkers[i].eventId,
                 child_count |-> Cardinality(Descendants(RootPushMarkers[i]))]]

\* a root Push marker with a grandchild, itself holding a nested Push marker
C10_Witness ==
    /\ Summarised
    /\ Len(result.summary.top_level_markers) = 1
    /\ result.summary.top_level_markers[1].child_count
          > Len(root_actions[1].children)
    /\ \E d \in Descendants(root_actions[1]) :
          HasFlag(d.flags, ActionFlags.PushMarker)

-----------------------------------------------------------------------------
(* C11 *)

EmptyRange ==
    /\ request.event_id_min # None
    /\ request.event_id_max # None
    /\ Val(request.event_id_min) > Val(request.event_id_max)

\* C11: with event_id_min greater than event_id_max the call returns
\* normally and its output is the empty sequence: no leaf action, hence no
\* marker either, for every forest and whatever the other arguments are.
C11_InvertedRangeIsEmpty ==
    (Called /\ EmptyRange) => result.actions = <<>>

\* an inverted range on a forest with a marker holding a leaf action, and a
\* leaf action whose event id equals event_id_min
C11_Witness ==
    /\ Called /\ EmptyRange
    /\ \E m \in InputNodes : IsMarker(m) /\ HasLeafDescendant(m)
    /\ \E a \in InputNodes :
          IsLeafAction(a) /\ a.eventId = Val(request.event_id_min)
    /\ result.actions = <<>>

-----------------------------------------------------------------------------
(* C12 *)

NoCaptureLoaded == Raise("ValueError", <<"No capture loaded">>)

\* C12: when no capture is loaded, get_draw_calls, get_frame_summary and
\* get_draw_call_details raise the "No capture loaded" error having called
\* nothing but IsCaptureLoaded: no callback is handed to _invoke, the forest
\* is not fetched and neither serialize_actions nor count_actions runs; with a
\* capture loaded that error is not raised and the callback is invoked.
C12_NoCaptureRaisesBeforeInvoke ==
    result # NoResult =>
        IF capture_loaded
        THEN result # NoCaptureLoaded /\ SubSeq(calls, 1, 2) = <<"IsCaptureLoaded", "_invoke">>
        ELSE result = NoCaptureLoaded /\ calls = <<"IsCaptureLoaded">>

\* get_draw_call_details called without a capture
C12_Witness ==
    /\ ~capture_loaded
    /\ "event_id" \in DOMAIN request
    /\ result = NoCaptureLoaded
    /\ "_invoke" \notin {calls[i] : i \in 1..Len(calls)}

-----------------------------------------------------------------------------
(* C13 *)

SerializeCalled == "actions" \in DOMAIN request

\* C13: called with None for the list of actions, serialize_actions raises
\* (Python's TypeError, on `for action in actions`) and returns nothing, no
\* partial list; called with a list it returns a list.
C13_NullForestRaises ==
    SerializeCalled =>
        IF request.actions = "None"
        THEN /\ result.op = "raise" /\ result.type = "TypeError"
             /\ "returned" \notin DOMAIN result
        ELSE result.op = "serialize_actions"

\* None given where the capture itself holds a leaf action
C13_Witness ==
    /\ SerializeCalled /\ request.actions = "None"
    /\ \E a \in InputNodes : IsLeafAction(a)
    /\ result.op = "raise"

-----------------------------------------------------------------------------
(* C14 *)

SerializedForest == SerializeCalled /\ request.actions = "root_actions"

\* the number of nodes on the path from a root to the node
NodeDepth(a) == 1 + Cardinality(Ancestors(a))

\* C14: on every forest and configuration the call returns a list; its
\* traversal visits no node twice (children are recursed into by the
\* flattening branch or by the inclusion branch, not both), and every visit
\* happens in a call nested as deep as the node is in the forest, so the
\* recursion is never deeper than the forest.
C14_SingleTraversal ==
    SerializedForest =>
        /\ result.op = "serialize_actions"
        /\ \A i, j \in 1..Len(result.visits) :
              result.visits[i].eventId = result.visits[j].eventId => i = j
        /\ \A i \in 1..Len(result.visits) :
              /\ result.visits[i].eventId \in {a.eventId : a \in InputNodes}
              /\ result.visits[i].depth = NodeDepth(NodeOf(result.visits[i].eventId))

\* a marker flattened by only_actions whose children were visited, in a
\* traversal that skipped part of the forest
C14_Witness ==
    /\ SerializedForest /\ request.only_actions
    /\ \E i \in 1..Len(result.visits) :
          /\ result.visits[i].depth = 2
          /\ \E m \in Ancestors(NodeOf(result.visits[i].eventId)) : IsMarker(m)
    /\ Len(result.visits) < Cardinality(InputNodes)

-----------------------------------------------------------------------------
(* C17 *)

\* the node or one of its ancestors is a Push marker whose name contains
\* marker_filter
InMatchingScope(a) ==
    /\ Truthy(request.marker_filter)
    /\ \/ MatchingPush(a)
       \/ \E b \in Ancestors(a) : MatchingPush(b)

\* C17: the matching scope computed for a visited node is true exactly when
\* the node or one of its ancestors is a Push marker whose name contains
\* marker_filter: a Set or Pop marker with a matching name does not set it,
\* it holds for every visited descendant whatever markers lie in between,
\* and for no node outside the subtree of a matching Push marker.
C17_ScopeLatch ==
    SerializedForest =>
        \A i \in 1..Len(result.visits) :
            result.visits[i].in_matching # None =>
                (Val(result.visits[i].in_matching)
                    <=> InMatchingScope(NodeOf(result.visits[i].eventId)))

\* a root Set marker with a matching name is out of scope, and a node below a
\* matching Push marker is in scope
C17_Witness ==
    /\ SerializedForest /\ Truthy(request.marker_filter)
    /\ \E i \in 1..Len(result.visits) :
          /\ is_set_marker(NodeOf(result.visits[i].eventId).flags)
          /\ Contains(NodeOf(result.visits[i].eventId).name,
                      Val(request.marker_filter))
          /\ result.visits[i].in_matching = Some(FALSE)
    /\ \E i \in 1..Len(result.visits) :
          /\ result.visits[i].depth = 2
          /\ result.visits[i].in_matching = Some(TRUE)

-----------------------------------------------------------------------------
(* C15 *)

\* the sequence a node is an element of, and the scope that sequence's call
\* inherits
SiblingsOf(a) ==
    IF Ancestors(a) = {} THEN root_actions
    ELSE (CHOOSE b \in Ancestors(a) :
              \A c \in Ancestors(a) : c.eventId <= b.eventId).children

InheritedScope(a) ==
    /\ Truthy(request.marker_filter)
    /\ \E b \in Ancestors(a) : MatchingPush(b)

\* the node is an element of the list returned for its sibling sequence
AppearsAmongSiblings(a) ==
    \E it \in Range(serialize_actions(SiblingsOf(a), request, InheritedScope(a))) :
        it.event_id = a.eventId

\* C15: with only_actions false, a marker that exclude_markers does not
\* suppress is in the list returned for its sibling sequence exactly when the
\* filtered projection of its children is non-empty and marker_filter is not
\* configured or the marker is in matching scope; nothing else is tested.
C15_MarkerIffChildrenAndScope ==
    (Called /\ ~request.only_actions) =>
        \A m \in InputNodes :
            (IsMarker(m) /\ ~excluded(m.name, m.flags, request.exclude_markers)) =>
                (AppearsAmongSiblings(m)
                    <=> /\ serialize_actions(m.children, request,
                                             InMatchingScope(m)) # <<>>
                        /\ ~Truthy(request.marker_filter) \/ InMatchingScope(m))

-----------------------------------------------------------------------------
(* C16 *)

\* C16: a marker of any type whose name contains an exclude_markers substring
\* contributes nothing to the list of its sibling sequence, inside or outside
\* matching scope, and neither it nor any of its descendants is anywhere in
\* the output, whatever marker_filter, only_actions and the other filters are.
C16_SuppressionFirst ==
    (Called /\ Truthy(request.exclude_markers)) =>
        \A m \in InputNodes :
            (IsMarker(m) /\ NameExcluded(m)) =>
                /\ serialize_actions(<<m>>, request, TRUE) = <<>>
                /\ serialize_actions(<<m>>, request, FALSE) = <<>>
                /\ m.eventId \notin OutputIds(result.actions)
                /\ \A d \in Descendants(m) :
                      d.eventId \notin OutputIds(result.actions)

\* only_actions set, and a Push marker holding a leaf action whose name
\* contains both marker_filter and an exclude_markers substring
C16_Witness ==
    /\ Called /\ Truthy(request.exclude_markers) /\ Truthy(request.marker_filter)
    /\ request.only_actions
    /\ \E m \in InputNodes :
          /\ MatchingPush(m) /\ NameExcluded(m)
          /\ \E d \in Descendants(m) : IsLeafAction(d) /\ InEventRange(d.eventId)
    /\ result.actions = <<>>

-----------------------------------------------------------------------------
(* C18 *)

\* the event id of the nearest ancestor that is not a marker, 0 without one
NearestLeafAncestorId(a) ==
    LET ids == {b.eventId : b \in {c \in Ancestors(a) : IsLeafAction(c)}}
    IN IF ids = {} THEN 0 ELSE CHOOSE e \in ids : \A f \in ids : f <= e

\* every item of a list sits directly under its nearest non-marker ancestor
\* (at the top when it has none), in the order of the capture
RECURSIVE SplicedInPlace(_, _)
SplicedInPlace(out, enclosing) ==
    \A i \in 1..Len(out) :
        /\ NearestLeafAncestorId(NodeOf(out[i].event_id)) = enclosing
        /\ i > 1 => out[i - 1].event_id < out[i].event_id
        /\ "children" \in DOMAIN out[i] =>
              SplicedInPlace(out[i].children, out[i].event_id)

\* what a root contributes when markers are flattened: a marker gives the
\* filtered results of its children, another node its own result
RootContribution(a) ==
    IF ~IsMarker(a) THEN serialize_actions(<<a>>, request, FALSE)
    ELSE IF excluded(a.name, a.flags, request.exclude_markers)
              \/ ~request.include_children
    THEN <<>>
    ELSE serialize_actions(a.children, request, InMatchingScope(a))

-----------------------------------------------------------------------------
(* C19 *)

FlagsFilterSet ==
    {Val(request.flags_filter)[k] : k \in 1..Len(Val(request.flags_filter))}

\* C19: with a non-empty flags_filter every item of the output that is not a
\* marker carries, in its flags, at least one of the listed names; markers
\* are exempt, so a marker none of whose names is listed can be in the
\* output, which then holds a non-marker below it.
C19_FlagsFilterOnLeavesOnly ==
    (Called /\ Truthy(request.flags_filter)) =>
        \A it \in Range(OutputItems(result.actions)) :
            IF IsMarker(NodeOf(it.event_id))
            THEN "children" \in DOMAIN it
            ELSE Range(it.flags) \cap FlagsFilterSet # {}

\* a marker without a listed flag name is in the output, and a leaf action
\* without one is not
C19_Witness ==
    /\ Called /\ Truthy(request.flags_filter)
    /\ \E it \in Range(OutputItems(result.actions)) :
          IsMarker(NodeOf(it.event_id)) /\ Range(it.flags) \cap FlagsFilterSet = {}
    /\ \E a \in InputNodes :
          /\ IsLeafAction(a)
          /\ Range(serialize_flags(a.flags)) \cap FlagsFilterSet = {}
          /\ a.eventId \notin OutputIds(result.actions)

-----------------------------------------------------------------------------
(* C20 *)

TextureAsked == "mip" \in DOMAIN request

\* an index of the request is outside what the texture has
IndexOutOfRange(tex) ==
    \/ request.mip \notin 0..(tex.mips - 1)
    \/ request.slice \notin 0..(max_slices(tex) - 1)
    \/ request.sample \notin 0..(tex.msSamp - 1)
    \/ /\ request.depth_slice # None
       \/ ~(tex.depth > 1)
          \/ Val(request.depth_slice) \notin 0..(MipSize(tex.depth, request.mip) - 1)

-----------------------------------------------------------------------------
(* C21 *)

SerializedTwice == result.op = "serialize_actions_twice"

\* C21: on one forest, with only_actions and the other arguments fixed,
\* setting or tightening one of marker_filter, exclude_markers, event_id_min,
\* event_id_max and flags_filter gives an output whose event ids are all
\* among the event ids of the output before the change.
C21_TighteningAddsNoNode ==
    SerializedTwice => OutputIds(result.second) \subseteq OutputIds(result.first)

\* a marker_filter set on a call that keeps markers: part of the output
\* goes, part stays
C21_Witness ==
    /\ SerializedTwice
    /\ request.tightened = "marker_filter"
    /\ ~request.first.only_actions
    /\ result.second # <<>>
    /\ OutputIds(result.second) # OutputIds(result.first)

-----------------------------------------------------------------------------
(* C22 *)

\* the event id of the parent of a node, 0 for a root
ParentId(a) ==
    LET ids == {b.eventId : b \in Ancestors(a)}
    IN IF ids = {} THEN 0 ELSE CHOOSE e \in ids : \A f \in ids : f <= e

\* every item of a list sits under the item of its parent in the capture,
\* or of its nearest non-marker ancestor when markers are flattened
RECURSIVE ParentsKept(_, _)
ParentsKept(out, enclosing) ==
    \A i \in 1..Len(out) :
        /\ enclosing = IF request.only_actions
                       THEN NearestLeafAncestorId(NodeOf(out[i].event_id))
                       ELSE ParentId(NodeOf(out[i].event_id))
        /\ "children" \in DOMAIN out[i] =>
              ParentsKept(out[i].children, out[i].event_id)

\* C22: a node is in the output only if each of its non-marker ancestors is,
\* and with only_actions false each of its marker ancestors too; the
\* descendants of a dropped non-marker are dropped with it and every item
\* keeps its parent, so no node is re-parented.
C22_AncestorsKept ==
    SerializedForest =>
        /\ \A e \in OutputIds(result.returned) :
              \A b \in Ancestors(NodeOf(e)) :
                  (IsLeafAction(b) \/ ~request.only_actions) =>
                      b.eventId \in OutputIds(result.returned)
        /\ ParentsKept(result.returned, 0)

\* a non-marker below event_id_min is dropped with a child that is inside
\* the range, while another node is kept
C22_Witness ==
    /\ SerializedForest /\ request.event_id_min # None
    /\ request.include_children
    /\ \E b \in InputNodes :
          /\ IsLeafAction(b) /\ b.eventId < Val(request.event_id_min)
          /\ \E d \in Descendants(b) :
                /\ IsLeafAction(d) /\ d.eventId >= Val(request.event_id_min)
                /\ d.eventId \notin OutputIds(result.returned)
    /\ result.returned # <<>>

-----------------------------------------------------------------------------
(* C23 *)

\* a root that is not a marker and passes the range, category and scope
\* checks; out of scope as soon as marker_filter is configured
RootLeafPasses(a) ==
    /\ IsLeafAction(a)
    /\ InEventRange(a.eventId)
    /\ Truthy(request.flags_filter) =>
          Range(serialize_flags(a.flags)) \cap FlagsFilterSet # {}
    /\ ~Truthy(request.marker_filter)

====
